---- MODULE Spec2Model ----
(***************************************************************************)
(* Model of the report edge function                                       *)
(* (supabase/functions/generate-report/index.ts): one report request from  *)
(* the parsing of its body to its single response, with the four entity    *)
(* queries of Promise.all completing in any order.                         *)
(***************************************************************************)
EXTENDS Integers, Sequences, FiniteSets, TLC

VARIABLES
    pc,         \* position of the serve handler: "idle" (no request), "start",
                \* "awaiting", "done"
    req,        \* the parsed request body (or Malformed)
    now,        \* the wall clock when the handler reads it (new Date())
    tz,         \* the runtime's local time zone, minutes east of UTC
    db,         \* the rows of the four tables
    window,     \* reportStartDate / reportEndDate
    issued,     \* how many times each entity query was sent
    qargs,      \* the arguments each generate*Report was called with
    result,     \* what each entity query returned: { data, error }
    promise,    \* the promise of each generate*Report call
    all,        \* the promise of Promise.all
    report,     \* the report object of the handler, once assembled
    responses,  \* the responses the handler returned, in order
    mail        \* the template renderer of the send-email function

vars == <<pc, req, now, tz, db, window, issued, qargs, result, promise, all, report,
          responses, mail>>

(***************************************************************************)
(* Dates.  A Date's time value is kept as (day since the epoch, ms of the  *)
(* day); the arithmetic below is the one of ECMAScript's Date.             *)
(***************************************************************************)
MsPerDay == 24 * 60 * 60 * 1000

\* A week in seconds, taken for milliseconds.
WeekSeconds == 7 * 24 * 60 * 60

WeekMs == 7 * 24 * 60 * 60 * 1000

Instant(d, m) == [day |-> d + (m \div MsPerDay), ms |-> m % MsPerDay]

AddMs(t, k) == Instant(t.day, t.ms + k)

TimeLE(a, b) == a.day < b.day \/ (a.day = b.day /\ a.ms <= b.ms)

\* Days since 1970-01-01 of the civil date y-m-d (m in 1..12; d may overflow
\* the month, as in MakeDay).
DaysFromCivil(y, m, d) ==
    LET yy  == IF m <= 2 THEN y - 1 ELSE y
        era == yy \div 400
        yoe == yy - era * 400
        mp  == IF m > 2 THEN m - 3 ELSE m + 9
        doy == (153 * mp + 2) \div 5 + d - 1
        doe == yoe * 365 + yoe \div 4 - yoe \div 100 + doy
    IN  era * 146097 + doe - 719468

\* YearFromTime / MonthFromTime / DateFromTime of a day number.
CivilFromDays(z0) ==
    LET z   == z0 + 719468
        era == z \div 146097
        doe == z - era * 146097
        yoe == (doe - doe \div 1460 + doe \div 36524 - doe \div 146096) \div 365
        doy == doe - (365 * yoe + yoe \div 4 - yoe \div 100)
        mp  == (5 * doy + 2) \div 153
        d   == doy - (153 * mp + 2) \div 5 + 1
        m   == IF mp < 10 THEN mp + 3 ELSE mp - 9
        y   == yoe + era * 400 + (IF m <= 2 THEN 1 ELSE 0)
    IN  [year |-> y, month |-> m, day |-> d]

\* MakeDay(year, month, date): month is 0-based and may lie outside 0..11,
\* date may lie outside the month; both carry over.
MakeDay(year, month, date) ==
    DaysFromCivil(year + (month \div 12), (month % 12) + 1, 1) + date - 1

LocalTime(t, z) == AddMs(t, z * 60000)

UTC(t, z) == AddMs(t, 0 - z * 60000)

getFullYear(t, z) == CivilFromDays(LocalTime(t, z).day).year

getMonth(t, z) == CivilFromDays(LocalTime(t, z).day).month - 1

getDate(t, z) == CivilFromDays(LocalTime(t, z).day).day

\* new Date(year, month, date): local midnight of that (carried-over) day.
NewDate(year, month, date, z) == UTC(Instant(MakeDay(year, month, date), 0), z)

\* Date.prototype.toISOString: the UTC fields of YYYY-MM-DDTHH:mm:ss.sssZ.
toISOString(t) ==
    LET c == CivilFromDays(t.day)
    IN  [kind   |-> "iso",
         year   |-> c.year,
         month  |-> c.month,
         day    |-> c.day,
         hour   |-> t.ms \div 3600000,
         minute |-> (t.ms \div 60000) % 60,
         second |-> (t.ms \div 1000) % 60,
         milli  |-> t.ms % 1000]

\* The instant an ISO-8601 string denotes (what the store compares with).
ParseISO(s) ==
    Instant(DaysFromCivil(s.year, s.month, s.day),
            ((s.hour * 60 + s.minute) * 60 + s.second) * 1000 + s.milli)

(***************************************************************************)
(* JavaScript values of the request.                                       *)
(***************************************************************************)
Undefined == [kind |-> "undefined"]

EmptyString == [kind |-> "empty"]

NoUser == "<undefined>"

\* if (startDate) ..., if (endDate) ...
TruthyDate(s) == s.kind = "iso"

\* if (userId) ...
TruthyUser(u) == u # NoUser /\ u # ""

Malformed == [kind |-> "malformed"]

(***************************************************************************)
(* Strings that are put together or searched are sequences of tokens: a    *)
(* run of characters [lit], or a value in the characters String() gives it *)
(* ([num], [iso], [time]).  In the fields of a row and in the csv text a   *)
(* line feed and a comma are tokens of their own, wherever they occur.     *)
(***************************************************************************)
Lit(s) == [lit |-> s]

NewLine == Lit("\n")

Comma == Lit(",")

\* `${n}` for a number n
TextOfNumber(n) == <<[num |-> n]>>

\* `${s}` for a request's startDate / endDate
TextOfDate(s) ==
    IF s.kind = "undefined" THEN <<Lit("undefined")>>
    ELSE IF s.kind = "empty" THEN <<>>
    ELSE <<[iso |-> s]>>

\* `${t}` for a timestamptz column of a row
TextOfTime(t) == <<[time |-> t]>>

RECURSIVE Join(_, _)
\* parts.join(sep)
Join(parts, sep) ==
    IF Len(parts) = 0 THEN <<>>
    ELSE IF Len(parts) = 1 THEN parts[1]
    ELSE parts[1] \o <<sep>> \o Join(Tail(parts), sep)

Q == {"tickets", "contacts", "deals", "appointments"}

(***************************************************************************)
(* serve handler, lines 28-44: the date range of the report.               *)
(***************************************************************************)
\* The date range with a caller's endDate kept when one is given.
ResolveWindowKeepsEnd(type, startDate, endDate, t, z) ==
    IF type = "weekly" THEN
        [startDate |-> toISOString(AddMs(t, 0 - WeekMs)),
         endDate   |-> IF TruthyDate(endDate) THEN endDate ELSE toISOString(t)]
    ELSE IF type = "monthly" THEN
        [startDate |-> toISOString(NewDate(getFullYear(t, z), getMonth(t, z) - 1,
                                           getDate(t, z), z)),
         endDate   |-> IF TruthyDate(endDate) THEN endDate ELSE toISOString(t)]
    ELSE
        [startDate |-> startDate, endDate |-> endDate]

ResolveWindow(type, startDate, endDate, t, z) ==
    IF type = "weekly" THEN
        [startDate |-> toISOString(AddMs(t, 0 - WeekMs)),
         endDate   |-> toISOString(t)]
    ELSE IF type = "monthly" THEN
        [startDate |-> toISOString(NewDate(getFullYear(t, z), getMonth(t, z) - 1,
                                           getDate(t, z), z)),
         endDate   |-> toISOString(t)]
    ELSE
        [startDate |-> startDate, endDate |-> endDate]

(***************************************************************************)
(* JavaScript numbers.  The rates are computed in IEEE-754 double          *)
(* precision: (won / total) * 100 rounds twice before Math.round sees it.  *)
(* A double in [2^-k, 256 * 2^-k) is [lead, f, k]: its value is            *)
(* (lead + f / 2^52) * 2^-k, the 52 fraction bits f held as four 13-bit    *)
(* limbs, most significant first.                                          *)
(***************************************************************************)
RECURSIVE Pow2(_)
Pow2(k) == IF k = 0 THEN 1 ELSE 2 * Pow2(k - 1)

Limb == Pow2(13)

RECURSIVE NormShift(_, _)
\* The least k with a * 2^k >= b (1 <= a).
NormShift(a, b) == IF a >= b THEN 0 ELSE 1 + NormShift(2 * a, b)

\* [lead, f] plus carry units of the last limb (carry is 0 or 1 times unit).
AddUlp(lead, f, unit) ==
    LET s4 == f[4] + unit
        s3 == f[3] + s4 \div Limb
        s2 == f[2] + s3 \div Limb
        s1 == f[1] + s2 \div Limb
    IN  [lead |-> lead + s1 \div Limb,
         f    |-> <<s1 % Limb, s2 % Limb, s3 % Limb, s4 % Limb>>]

\* a / b for integers 1 <= a <= b, rounded to nearest, ties to even:
\* 52 fraction bits by long division, then the guard bit and the rest.
FDiv(a, b) ==
    LET k  == NormShift(a, b)
        r0 == a * Pow2(k) - b
        r1 == (r0 * Limb) % b
        r2 == (r1 * Limb) % b
        r3 == (r2 * Limb) % b
        r4 == (r3 * Limb) % b
        f  == <<(r0 * Limb) \div b, (r1 * Limb) \div b,
                (r2 * Limb) \div b, (r3 * Limb) \div b>>
        guard  == (2 * r4) \div b
        sticky == (2 * r4) % b # 0
        up     == guard = 1 /\ (sticky \/ f[4] % 2 = 1)
        x      == IF up THEN AddUlp(1, f, 1) ELSE [lead |-> 1, f |-> f]
    IN  IF x.lead = 2 THEN [lead |-> 1, f |-> <<0, 0, 0, 0>>, k |-> k - 1]
        ELSE [lead |-> 1, f |-> x.f, k |-> k]

\* x * 100 for a double x = [1, f, k], rounded to nearest, ties to even:
\* the exact product has 59 or 60 bits, of which 53 are kept.
FMul100(x) ==
    LET t4   == 100 * x.f[4]
        t3   == 100 * x.f[3] + t4 \div Limb
        t2   == 100 * x.f[2] + t3 \div Limb
        t1   == 100 * x.f[1] + t2 \div Limb
        lead == 100 * x.lead + t1 \div Limb
        unit == IF lead >= 128 THEN 128 ELSE 64
        low  == (t4 % Limb) % unit
        kept == (t4 % Limb) - low
        f    == <<t1 % Limb, t2 % Limb, t3 % Limb, kept>>
        up   == 2 * low > unit \/ (2 * low = unit /\ (kept \div unit) % 2 = 1)
        y    == IF up THEN AddUlp(lead, f, unit) ELSE [lead |-> lead, f |-> f]
    IN  [lead |-> y.lead, f |-> y.f, k |-> x.k]

\* Math.round of a positive double [lead, f, k]: the nearest integer, a
\* fraction of exactly one half going up.
MathRound(x) ==
    IF x.k = 0 THEN x.lead + (IF x.f[1] >= Limb \div 2 THEN 1 ELSE 0)
    ELSE IF x.k > 9 THEN 0
    ELSE (x.lead \div Pow2(x.k)) + ((x.lead \div Pow2(x.k - 1)) % 2)

\* Math.round((part / total) * 100), for 0 <= part <= total, total > 0.
RoundedPercent(part, total) ==
    IF part = 0 THEN 0 ELSE MathRound(FMul100(FDiv(part, total)))

(***************************************************************************)
(* Amounts.  deals.value is decimal(10,2); it arrives as a JSON number and *)
(* is a double from then on.  A double of the range these sums move in is  *)
(* kept here as the natural number n with value n / 2^65, in seven 13-bit  *)
(* limbs, most significant first; a double has at most 53 significant      *)
(* bits.                                                                   *)
(***************************************************************************)
ZeroDouble == <<0, 0, 0, 0, 0, 0, 0>>

RECURSIVE BitLen(_)
\* The number of bits of n.
BitLen(n) == IF n = 0 THEN 0 ELSE 1 + BitLen(n \div 2)

RECURSIVE CarryInto(_, _, _)
\* The carry into limb i of x + y.
CarryInto(x, y, i) ==
    IF i = Len(x) THEN 0 ELSE (x[i + 1] + y[i + 1] + CarryInto(x, y, i + 1)) \div Limb

\* x + y, exactly.
BigAdd(x, y) == [i \in DOMAIN x |-> (x[i] + y[i] + CarryInto(x, y, i)) % Limb]

\* The number of bits of x # 0.
BigBits(x) ==
    LET top == CHOOSE i \in DOMAIN x : x[i] # 0 /\ \A j \in 1..(i - 1) : x[j] = 0
    IN  (Len(x) - top) * 13 + BitLen(x[top])

\* x (with something still below its last bit if sticky) rounded to 53
\* significant bits, to nearest, ties to even.
RoundDouble(x, sticky) ==
    IF x = ZeroDouble \/ BigBits(x) <= 53 THEN x
    ELSE
        LET drop  == BigBits(x) - 53
            j     == Len(x) - (drop \div 13)
            b     == drop % 13
            u     == Pow2(b)
            guard == IF b >= 1 THEN (x[j] \div Pow2(b - 1)) % 2
                     ELSE x[j + 1] \div (Limb \div 2)
            rest  == \/ sticky
                     \/ IF b >= 1
                        THEN x[j] % Pow2(b - 1) # 0 \/ \E i \in (j + 1)..Len(x) : x[i] # 0
                        ELSE \/ x[j + 1] % (Limb \div 2) # 0
                             \/ \E i \in (j + 2)..Len(x) : x[i] # 0
            odd   == (x[j] \div u) % 2 = 1
            kept  == [i \in DOMAIN x |->
                         IF i < j THEN x[i] ELSE IF i = j THEN x[j] - (x[j] % u) ELSE 0]
            ulp   == [i \in DOMAIN x |-> IF i = j THEN u ELSE 0]
        IN  IF guard = 1 /\ (rest \/ odd) THEN BigAdd(kept, ulp) ELSE kept

RECURSIVE RemAfter(_, _, _)
\* The remainder of the long division of the limbs d by n after limb i.
RemAfter(d, n, i) == IF i = 0 THEN 0 ELSE (RemAfter(d, n, i - 1) * Limb + d[i]) % n

\* The double a JSON number of c hundredths is parsed to: c / 100 rounded.
DoubleOfCents(c) ==
    LET d == <<c \div Limb, c % Limb, 0, 0, 0, 0, 0>>
        q == [i \in DOMAIN d |-> (RemAfter(d, 100, i - 1) * Limb + d[i]) \div 100]
    IN  RoundDouble(q, RemAfter(d, 100, Len(d)) # 0)

\* x + y of two doubles.
FAdd(x, y) == RoundDouble(BigAdd(x, y), FALSE)

(***************************************************************************)
(* The store: what a query built by generate*Report selects.               *)
(***************************************************************************)
NullUser == "<null>"

\* A decimal(10,2) of c hundredths, or null.
Num(c) == [isNull |-> FALSE, cents |-> c]

NullValue == [isNull |-> TRUE]

ProfileName(u) == <<Lit("name of " \o u)>>

\* select(`id, subject, status, priority, created_at, updated_at,
\*         customer:profiles!customer_id(name, email),
\*         assignedTo:profiles!assigned_to(name, email)`)
TicketSelect(row) ==
    [id         |-> row.id,
     subject    |-> row.subject,
     status     |-> row.status,
     priority   |-> row.priority,
     created_at |-> row.created_at,
     customer   |-> [isNull |-> FALSE, name |-> ProfileName(row.customer_id)],
     assignedTo |-> IF row.assigned_to = NullUser THEN [isNull |-> TRUE]
                    ELSE [isNull |-> FALSE, name |-> ProfileName(row.assigned_to)]]

\* The deal as the client reads it from the JSON of the response: value is
\* a number (a double) or null.
DealSelect(row) ==
    [row EXCEPT !.value = IF row.value.isNull THEN NullValue
                          ELSE [isNull |-> FALSE, n |-> DoubleOfCents(row.value.cents)]]

\* select('*'), and select(`*, contact:contacts(name, company)`)
Select(q, row) ==
    IF q = "tickets" THEN TicketSelect(row)
    ELSE IF q = "deals" THEN DealSelect(row)
    ELSE row

MapSeq(seq, Op(_)) == [i \in 1..Len(seq) |-> Op(seq[i])]

\* The ticket filter with the two roles joined by AND.
TicketMatchesBoth(row, args) ==
    /\ TruthyDate(args.startDate) => TimeLE(ParseISO(args.startDate), row.created_at)
    /\ TruthyDate(args.endDate) => TimeLE(row.created_at, ParseISO(args.endDate))
    /\ TruthyUser(args.userId) =>
           (row.customer_id = args.userId /\ row.assigned_to = args.userId)

\* lines 144-146: gte / lte on created_at, or(customer_id.eq, assigned_to.eq)
TicketMatches(row, args) ==
    /\ TruthyDate(args.startDate) => TimeLE(ParseISO(args.startDate), row.created_at)
    /\ TruthyDate(args.endDate) => TimeLE(row.created_at, ParseISO(args.endDate))
    /\ TruthyUser(args.userId) =>
           (row.customer_id = args.userId \/ row.assigned_to = args.userId)

\* The created_by filter left out.
CreatedMatchesAnyone(row, args) ==
    /\ TruthyDate(args.startDate) => TimeLE(ParseISO(args.startDate), row.created_at)
    /\ TruthyDate(args.endDate) => TimeLE(row.created_at, ParseISO(args.endDate))

\* lines 172-174 and 201-203: gte / lte on created_at, eq on created_by
CreatedMatches(row, args) ==
    /\ TruthyDate(args.startDate) => TimeLE(ParseISO(args.startDate), row.created_at)
    /\ TruthyDate(args.endDate) => TimeLE(row.created_at, ParseISO(args.endDate))
    /\ TruthyUser(args.userId) => row.created_by = args.userId

\* The appointment filter with the dates applied to created_at.
AppointmentMatchesCreated(row, args) ==
    /\ TruthyDate(args.startDate) => TimeLE(ParseISO(args.startDate), row.created_at)
    /\ TruthyDate(args.endDate) => TimeLE(row.created_at, ParseISO(args.endDate))
    /\ TruthyUser(args.userId) => row.created_by = args.userId

\* lines 229-231: gte / lte on start_time, eq on created_by
AppointmentMatches(row, args) ==
    /\ TruthyDate(args.startDate) => TimeLE(ParseISO(args.startDate), row.start_time)
    /\ TruthyDate(args.endDate) => TimeLE(row.start_time, ParseISO(args.endDate))
    /\ TruthyUser(args.userId) => row.created_by = args.userId

Matches(q, row, args) ==
    IF q = "tickets" THEN TicketMatches(row, args)
    ELSE IF q = "appointments" THEN AppointmentMatches(row, args)
    ELSE CreatedMatches(row, args)

\* The rows a successful query returns.
QueryRows(q, table, args) ==
    LET Test(row) == Matches(q, row, args)
        Cols(row) == Select(q, row)
    IN  MapSeq(SelectSeq(table, Test), Cols)

ErrorOf(q) == [message |-> "query failed: " \o q]

\* What `await query` may yield: { data, error }.
QueryResults(q, table, args) ==
    { [kind |-> "rows", rows |-> QueryRows(q, table, args)],
      [kind |-> "null"],
      [kind |-> "error", error |-> ErrorOf(q)] }

(***************************************************************************)
(* The reductions of the four generate*Report functions.                   *)
(***************************************************************************)
\* data?.length || 0
LengthOf(res) == IF res.kind = "rows" THEN Len(res.rows) ELSE 0

\* data || []
DetailsOf(res) == IF res.kind = "rows" THEN res.rows ELSE <<>>

\* data?.filter(r => r[field] === v).length || 0, for field status
CountStatus(res, v) ==
    LET Test(row) == row.status = v
    IN  IF res.kind = "rows" THEN Len(SelectSeq(res.rows, Test)) ELSE 0

\* The filter testing for a closed stage of either kind
\* (d.stage.startsWith('closed')) in the place of d.stage === v.
CountStageClosed(res, v) ==
    LET Test(row) == row.stage \in {"closed-won", "closed-lost"}
    IN  IF res.kind = "rows" THEN Len(SelectSeq(res.rows, Test)) ELSE 0

\* data?.filter(d => d.stage === v).length || 0
CountStage(res, v) ==
    LET Test(row) == row.stage = v
    IN  IF res.kind = "rows" THEN Len(SelectSeq(res.rows, Test)) ELSE 0

EmptyObject == [s \in {} |-> 0]

\* acc[row.status] = 1: the count so far is dropped.
BumpOverwrite(acc, s) ==
    [t \in DOMAIN acc \cup {s} |-> IF t = s THEN 1 ELSE acc[t]]

\* acc[row.status] = (acc[row.status] || 0) + 1
Bump(acc, s) ==
    IF s \in DOMAIN acc THEN [acc EXCEPT ![s] = @ + 1]
    ELSE [t \in DOMAIN acc \cup {s} |-> IF t = s THEN 1 ELSE acc[t]]

RECURSIVE ReduceByStatus(_, _, _)
ReduceByStatus(rows, i, acc) ==
    IF i > Len(rows) THEN acc
    ELSE ReduceByStatus(rows, i + 1, Bump(acc, rows[i].status))

\* The reduce started from an object with a 0 for every status.
ByStatusOfZeroed(res) ==
    LET zeroed == [s \in {"open", "in-progress", "resolved", "closed",
                          "lead", "prospect", "customer", "churned"} |-> 0]
    IN  IF res.kind = "rows" THEN ReduceByStatus(res.rows, 1, zeroed) ELSE EmptyObject

\* data?.reduce(..., {}) || {}
ByStatusOf(res) ==
    IF res.kind = "rows" THEN ReduceByStatus(res.rows, 1, EmptyObject) ELSE EmptyObject

RECURSIVE ReduceRevenue(_, _, _)
\* sum + (deal.value || 0)
ReduceRevenue(rows, i, sum) ==
    IF i > Len(rows) THEN sum
    ELSE ReduceRevenue(rows, i + 1,
                       FAdd(sum, IF rows[i].value.isNull THEN ZeroDouble
                                 ELSE rows[i].value.n))

\* data?.reduce(..., 0) || 0
RevenueOf(res) ==
    IF res.kind = "rows" THEN ReduceRevenue(res.rows, 1, ZeroDouble) ELSE ZeroDouble

\* total > 0 ? Math.round((part / total) * 100) : 0
Rate(part, total) == IF total > 0 THEN RoundedPercent(part, total) ELSE 0

Rejected(res) == [state |-> "rejected", reason |-> res.error]

Fulfilled(v) == [state |-> "fulfilled", value |-> v]

generateTicketReport(res) ==
    IF res.kind = "error" THEN Rejected(res)
    ELSE Fulfilled([total    |-> LengthOf(res),
                    resolved |-> CountStatus(res, "resolved"),
                    byStatus |-> ByStatusOf(res),
                    details  |-> DetailsOf(res)])

generateContactReport(res) ==
    IF res.kind = "error" THEN Rejected(res)
    ELSE Fulfilled([new      |-> LengthOf(res),
                    byStatus |-> ByStatusOf(res),
                    details  |-> DetailsOf(res)])

generateDealReport(res) ==
    IF res.kind = "error" THEN Rejected(res)
    ELSE Fulfilled([total          |-> LengthOf(res),
                    revenue        |-> RevenueOf(res),
                    won            |-> CountStage(res, "closed-won"),
                    lost           |-> CountStage(res, "closed-lost"),
                    conversionRate |-> Rate(CountStage(res, "closed-won"), LengthOf(res)),
                    details        |-> DetailsOf(res)])

\* generateAppointmentReport without line 235: the error is not looked at.
generateAppointmentReportNoThrow(res) ==
    Fulfilled([total          |-> LengthOf(res),
               completed      |-> CountStatus(res, "completed"),
               cancelled      |-> CountStatus(res, "cancelled"),
               completionRate |-> Rate(CountStatus(res, "completed"), LengthOf(res)),
               details        |-> DetailsOf(res)])

generateAppointmentReport(res) ==
    IF res.kind = "error" THEN Rejected(res)
    ELSE Fulfilled([total          |-> LengthOf(res),
                    completed      |-> CountStatus(res, "completed"),
                    cancelled      |-> CountStatus(res, "cancelled"),
                    completionRate |-> Rate(CountStatus(res, "completed"), LengthOf(res)),
                    details        |-> DetailsOf(res)])

\* The promise of generate*Report once its query has returned res.
Settle(q, res) ==
    IF q = "tickets" THEN generateTicketReport(res)
    ELSE IF q = "contacts" THEN generateContactReport(res)
    ELSE IF q = "deals" THEN generateDealReport(res)
    ELSE generateAppointmentReport(res)

(***************************************************************************)
(* The serve handler.                                                      *)
(***************************************************************************)
NoFormat == "<undefined>"

\* const { ..., format = 'json' } = await req.json()
FormatOf(r) == IF r.format = NoFormat THEN "json" ELSE r.format

\* Promise.race in the place of Promise.all: the first fulfilment settles it.
PromiseRace(prev, ps, q) ==
    IF prev.state # "pending" THEN prev
    ELSE IF ps[q].state = "rejected" THEN [state |-> "rejected", reason |-> ps[q].reason]
    ELSE [state |-> "fulfilled"]

\* Promise.all after input q has settled: it rejects with the first
\* rejection, fulfils once all four inputs are fulfilled, and never changes
\* once settled.
PromiseAll(prev, ps, q) ==
    IF prev.state # "pending" THEN prev
    ELSE IF ps[q].state = "rejected" THEN [state |-> "rejected", reason |-> ps[q].reason]
    ELSE IF \A r \in Q : ps[r].state = "fulfilled" THEN [state |-> "fulfilled"]
    ELSE prev

\* The report with appointmentsHeld taken from the appointments' total.
BuildReportHeldTotal(r, win, generatedAt, ps) ==
    [meta |-> [type        |-> r.type,
               startDate   |-> win.startDate,
               endDate     |-> win.endDate,
               generatedAt |-> generatedAt,
               userId      |-> r.userId],
     summary |-> [totalTickets     |-> ps["tickets"].value.total,
                  resolvedTickets  |-> ps["tickets"].value.resolved,
                  newContacts      |-> ps["contacts"].value.new,
                  totalRevenue     |-> ps["deals"].value.revenue,
                  appointmentsHeld |-> ps["appointments"].value.total],
     tickets      |-> ps["tickets"].value,
     contacts     |-> ps["contacts"].value,
     deals        |-> ps["deals"].value,
     appointments |-> ps["appointments"].value]

\* lines 54-73
BuildReport(r, win, generatedAt, ps) ==
    [meta |-> [type        |-> r.type,
               startDate   |-> win.startDate,
               endDate     |-> win.endDate,
               generatedAt |-> generatedAt,
               userId      |-> r.userId],
     summary |-> [totalTickets     |-> ps["tickets"].value.total,
                  resolvedTickets  |-> ps["tickets"].value.resolved,
                  newContacts      |-> ps["contacts"].value.new,
                  totalRevenue     |-> ps["deals"].value.revenue,
                  appointmentsHeld |-> ps["appointments"].value.completed],
     tickets      |-> ps["tickets"].value,
     contacts     |-> ps["contacts"].value,
     deals        |-> ps["deals"].value,
     appointments |-> ps["appointments"].value]

\* ticket.customer?.name || ''
NameOrEmpty(p) == IF p.isNull THEN <<>> ELSE p.name

\* lines 250-274: the csv text, lines.join('\n').
generateCsvReport(doc) ==
    LET TicketLine(t) ==
            Join(<<TextOfNumber(t.id), t.subject, <<Lit(t.status)>>,
                   <<Lit(t.priority)>>, TextOfTime(t.created_at),
                   NameOrEmpty(t.customer), NameOrEmpty(t.assignedTo)>>, Comma)
        lines ==
            << <<Lit("Report Summary")>>,
               <<Lit("Type"), Comma, Lit(doc.meta.type)>>,
               <<Lit("Generated At"), Comma>> \o TextOfDate(doc.meta.generatedAt),
               <<Lit("Start Date"), Comma>> \o TextOfDate(doc.meta.startDate),
               <<Lit("End Date"), Comma>> \o TextOfDate(doc.meta.endDate),
               <<>>,
               <<Lit("Key Metrics")>>,
               <<Lit("Total Tickets"), Comma>>
                   \o TextOfNumber(doc.summary.totalTickets),
               <<Lit("Resolved Tickets"), Comma>>
                   \o TextOfNumber(doc.summary.resolvedTickets),
               <<Lit("New Contacts"), Comma>>
                   \o TextOfNumber(doc.summary.newContacts),
               <<Lit("Total Revenue"), Comma, Lit("$")>>
                   \o TextOfNumber(doc.summary.totalRevenue),
               <<Lit("Appointments Held"), Comma>>
                   \o TextOfNumber(doc.summary.appointmentsHeld),
               <<>>,
               <<Lit("Ticket Details")>>,
               <<Lit("ID"), Comma, Lit("Subject"), Comma, Lit("Status"), Comma,
                 Lit("Priority"), Comma, Lit("Created At"), Comma, Lit("Customer"),
                 Comma, Lit("Assigned To")>> >>
            \o MapSeq(doc.tickets.details, TicketLine)
    IN  Join(lines, NewLine)

PdfNote == "PDF generation not implemented in demo. Use JSON or CSV format."

\* JSON.stringify of the report: a property whose value is undefined is left
\* out, all others are written as they are.
JSONStringify(doc) ==
    LET omit == (IF doc.meta.startDate = Undefined THEN {"startDate"} ELSE {})
                \cup (IF doc.meta.endDate = Undefined THEN {"endDate"} ELSE {})
                \cup (IF doc.meta.userId = NoUser THEN {"userId"} ELSE {})
    IN  [doc EXCEPT !.meta = [f \in DOMAIN doc.meta \ omit |-> doc.meta[f]]]

\* { ...report, note: '...' }
WithNote(doc) == [f \in DOMAIN doc \cup {"note"} |-> IF f = "note" THEN PdfNote ELSE doc[f]]

\* The format dispatch with "pdf" answered by the note alone.
SerializeNoteOnly(format, doc) ==
    IF format = "csv" THEN
        [status |-> 200, contentType |-> "text/csv", body |-> generateCsvReport(doc)]
    ELSE IF format = "pdf" THEN
        [status |-> 200, contentType |-> "application/json", body |-> [note |-> PdfNote]]
    ELSE
        [status |-> 200, contentType |-> "application/json", body |-> JSONStringify(doc)]

\* lines 75-112: the response in the requested format.
Serialize(format, doc) ==
    IF format = "csv" THEN
        [status |-> 200, contentType |-> "text/csv", body |-> generateCsvReport(doc)]
    ELSE IF format = "pdf" THEN
        [status |-> 200, contentType |-> "application/json",
         body |-> JSONStringify(WithNote(doc))]
    ELSE
        [status |-> 200, contentType |-> "application/json", body |-> JSONStringify(doc)]

\* The report object with the note assigned to it (report.note = '...').
ReportAfterAnnotating(format, doc) == IF format = "pdf" THEN WithNote(doc) ELSE doc

\* lines 75-112: the report object once the response is made.  No branch
\* assigns to it or to anything it holds: generateCsvReport reads it, the
\* spread copies it, JSON.stringify reads it.
ReportAfter(format, doc) == doc

\* lines 113-127
FailureResponse(error) ==
    [status |-> 500, contentType |-> "application/json",
     body |-> [error |-> error.message]]

ArgsOf(r, win) ==
    [startDate |-> win.startDate, endDate |-> win.endDate, userId |-> r.userId]

\* lines 28-52: the body is parsed, the date range resolved and the four
\* generate*Report calls made, each running up to its `await query`.
Receive ==
    /\ pc = "start"
    /\ req # Malformed
    /\ window' = ResolveWindow(req.type, req.startDate, req.endDate, now, tz)
    /\ qargs' = [q \in Q |-> ArgsOf(req, window')]
    /\ issued' = [q \in Q |-> issued[q] + 1]
    /\ promise' = [q \in Q |-> [state |-> "pending"]]
    /\ all' = [state |-> "pending"]
    /\ pc' = "awaiting"
    /\ UNCHANGED <<req, now, tz, db, result, report, responses, mail>>

\* line 28 throwing (a body that is no JSON object), caught at line 113.
RejectBody ==
    /\ pc = "start"
    /\ req = Malformed
    /\ responses' = Append(responses, FailureResponse([message |-> "invalid body"]))
    /\ pc' = "done"
    /\ UNCHANGED <<req, now, tz, db, window, issued, qargs, result, promise, all, report, mail>>

\* Complete with a retry: a query that fails is sent once more.
CompleteWithRetry(q) ==
    /\ pc \in {"awaiting", "done"}
    /\ promise[q].state = "pending"
    /\ \E res \in QueryResults(q, db[q], qargs[q]) :
          IF res.kind = "error" /\ issued[q] < 2
          THEN /\ issued' = [issued EXCEPT ![q] = @ + 1]
               /\ UNCHANGED <<result, promise, all>>
          ELSE /\ result' = [result EXCEPT ![q] = res]
               /\ promise' = [promise EXCEPT ![q] = Settle(q, res)]
               /\ all' = PromiseAll(all, promise', q)
               /\ UNCHANGED issued
    /\ UNCHANGED <<pc, req, now, tz, db, window, qargs, report, responses, mail>>

\* lines 148 onwards of generate*Report: the query of q returns, the function
\* throws or reduces the rows, and Promise.all takes note.  A query still
\* pending when Promise.all has rejected completes all the same.
Complete(q) ==
    /\ pc \in {"awaiting", "done"}
    /\ promise[q].state = "pending"
    /\ \E res \in QueryResults(q, db[q], qargs[q]) :
          /\ result' = [result EXCEPT ![q] = res]
          /\ promise' = [promise EXCEPT ![q] = Settle(q, res)]
          /\ all' = PromiseAll(all, promise', q)
    /\ UNCHANGED <<pc, req, now, tz, db, window, issued, qargs, report, responses, mail>>

Elapsed == {0, 7}

\* lines 54-112: Promise.all fulfilled.
Respond ==
    /\ pc = "awaiting"
    /\ all.state = "fulfilled"
    /\ \E e \in Elapsed :
          \E doc \in {BuildReport(req, window, toISOString(AddMs(now, e)), promise)} :
              /\ responses' = Append(responses, Serialize(FormatOf(req), doc))
              /\ report' = ReportAfter(FormatOf(req), doc)
    /\ pc' = "done"
    /\ UNCHANGED <<req, now, tz, db, window, issued, qargs, result, promise, all, mail>>

\* The catch block run for every rejected input of Promise.all: a response
\* per failed query.
CatchEach ==
    /\ pc \in {"awaiting", "done"}
    /\ all.state = "rejected"
    /\ \E q \in Q :
          /\ promise[q].state = "rejected"
          /\ \A i \in DOMAIN responses : responses[i] # FailureResponse(promise[q].reason)
          /\ responses' = Append(responses, FailureResponse(promise[q].reason))
    /\ pc' = "done"
    /\ UNCHANGED <<req, now, tz, db, window, issued, qargs, result, promise, all, report, mail>>

\* lines 113-127: Promise.all rejected.
Catch ==
    /\ pc = "awaiting"
    /\ all.state = "rejected"
    /\ responses' = Append(responses, FailureResponse(all.reason))
    /\ pc' = "done"
    /\ UNCHANGED <<req, now, tz, db, window, issued, qargs, result, promise, all, report, mail>>

Next ==
    \/ Receive
    \/ RejectBody
    \/ \E q \in Q : Complete(q)
    \/ Respond
    \/ Catch

(***************************************************************************)
(* The template renderer (supabase/functions/send-email/index.ts).  A      *)
(* template body is a sequence of tokens: runs of characters, the          *)
(* placeholders {{name}} that /\{\{(\w+)\}\}/g matches, and the markers     *)
(* {{#if name}} and {{/if}}, which it does not match ('#', ' ' and '/' are *)
(* no word characters).                                                    *)
(***************************************************************************)
Ph(key) == [ph |-> key]

IfOpen(key) == [open |-> key]

IfClose == [close |-> "if"]

\* templates.ticket_created.subject
ticket_created_subject ==
    <<Lit("Support Ticket Created - #"),
      Ph("ticketId")>>

\* templates.appointment_reminder.subject
appointment_reminder_subject ==
    <<Lit("Appointment Reminder - "),
      Ph("title")>>

\* templates.appointment_reminder.html
appointment_reminder_html ==
    <<Lit("\n      <div style=\"font-family: Arial, sans-serif; max-width: 600px; margin: 0 auto;\">\n        <h1 style=\"color: #2563eb;\">Appointment Reminder</h1>\n        <p>Hi "),
      Ph("attendeeName"),
      Lit(",</p>\n        <p>This is a reminder about your upcoming appointment.</p>\n        <div style=\"background-color: #f3f4f6; padding: 16px; border-radius: 8px; margin: 16px 0;\">\n          <h3 style=\"margin: 0 0 8px 0;\">Appointment Details</h3>\n          <p><strong>Title:</strong> "),
      Ph("title"),
      Lit("</p>\n          <p><strong>Date & Time:</strong> "),
      Ph("startTime"),
      Lit("</p>\n          <p><strong>Duration:</strong> "),
      Ph("duration"),
      Lit("</p>\n          <p><strong>Location:</strong> "),
      Ph("location"),
      Lit("</p>\n          "),
      IfOpen("meetingLink"),
      Lit("\n          <p><strong>Meeting Link:</strong> <a href=\""),
      Ph("meetingLink"),
      Lit("\">Join Meeting</a></p>\n          "),
      IfClose,
      Lit("\n        </div>\n        <p>"),
      IfOpen("description"),
      Ph("description"),
      IfClose,
      Lit("</p>\n        <p>Please make sure to join on time.</p>\n        <p>Best regards,<br>CommHub Team</p>\n      </div>\n    ")>>

\* templates.appointment_reminder.text
appointment_reminder_text ==
    <<Lit("Appointment Reminder - "),
      Ph("title"),
      Lit("\n\nHi "),
      Ph("attendeeName"),
      Lit(",\n\nThis is a reminder about your upcoming appointment.\n\nAppointment Details:\n- Title: "),
      Ph("title"),
      Lit("\n- Date & Time: "),
      Ph("startTime"),
      Lit("\n- Duration: "),
      Ph("duration"),
      Lit("\n- Location: "),
      Ph("location"),
      Lit("\n"),
      IfOpen("meetingLink"),
      Lit("- Meeting Link: "),
      Ph("meetingLink"),
      Lit("\n"),
      IfClose,
      Lit("\n"),
      IfOpen("description"),
      Lit("\n"),
      Ph("description"),
      Lit("\n"),
      IfClose,
      Lit("\nPlease make sure to join on time.\n\nBest regards,\nCommHub Team")>>

\* The values of templateData (parsed JSON).
Str(text) == [t |-> "string", text |-> text]

NumV(n) == [t |-> "number", n |-> n]

BoolV(b) == [t |-> "boolean", b |-> b]

NullV == [t |-> "null"]

UndefinedV == [t |-> "undefined"]

FunctionV(name) == [t |-> "function", name |-> name]

\* The functions every object inherits from Object.prototype.
InheritedFunctions ==
    {"constructor", "toString", "toLocaleString", "valueOf", "hasOwnProperty",
     "isPrototypeOf", "propertyIsEnumerable"}

\* data[key]
Get(data, key) ==
    IF key \in DOMAIN data THEN data[key]
    ELSE IF key \in InheritedFunctions THEN FunctionV(key)
    ELSE UndefinedV

\* ToBoolean
Truthy(v) ==
    IF v.t = "string" THEN v.text # <<>>
    ELSE IF v.t = "number" THEN v.n # 0
    ELSE IF v.t = "boolean" THEN v.b
    ELSE v.t = "function"

\* ToString, which String.prototype.replace applies to what the callback
\* returns.
StringOf(v) ==
    IF v.t = "string" THEN v.text
    ELSE IF v.t = "number" THEN TextOfNumber(v.n)
    ELSE IF v.t = "boolean" THEN <<Lit(IF v.b THEN "true" ELSE "false")>>
    ELSE IF v.t = "function"
         THEN <<Lit("function " \o (IF v.name = "constructor" THEN "Object" ELSE v.name)
                    \o "() { [native code] }")>>
    ELSE <<Lit(v.t)>>

\* (match, key) => data[key] || match
Replacement(data, key) ==
    IF Truthy(Get(data, key)) THEN StringOf(Get(data, key)) ELSE <<Ph(key)>>

RECURSIVE renderTemplate(_, _)
\* lines 123-127: template.replace(/\{\{(\w+)\}\}/g, ...)
renderTemplate(template, data) ==
    IF template = <<>> THEN <<>>
    ELSE (IF DOMAIN Head(template) = {"ph"}
          THEN Replacement(data, Head(template).ph)
          ELSE <<Head(template)>>)
         \o renderTemplate(Tail(template), data)

NoMail == [pc |-> "idle"]

\* One call of renderTemplate (lines 144-146 make three of them).
Render ==
    /\ mail.pc = "start"
    /\ mail' = [pc |-> "done", template |-> mail.template, data |-> mail.data,
                out |-> renderTemplate(mail.template, mail.data)]
    /\ UNCHANGED <<pc, req, now, tz, db, window, issued, qargs, result, promise, all,
                   report, responses>>

(***************************************************************************)
(* Inputs: requests, clocks and table contents.                            *)
(***************************************************************************)
Users == {"u1", "u2"}

Iso(y, mo, d, h, mi, sec, ms) ==
    [kind |-> "iso", year |-> y, month |-> mo, day |-> d,
     hour |-> h, minute |-> mi, second |-> sec, milli |-> ms]

DateA == Iso(2025, 1, 1, 0, 0, 0, 0)

DateB == Iso(2025, 1, 31, 23, 59, 59, 0)

\* Row timestamps: just outside, and exactly on, the two bounds.
RowTimes ==
    {AddMs(ParseISO(DateA), 0 - 1), ParseISO(DateA),
     ParseISO(DateB), AddMs(ParseISO(DateB), 1)}

Request(type, s, e, u, f) ==
    [type |-> type, startDate |-> s, endDate |-> e, userId |-> u, format |-> f]

CallerWindows ==
    {<<Undefined, Undefined>>, <<DateA, DateB>>, <<DateA, Undefined>>,
     <<EmptyString, DateB>>}

CallerUsers == {NoUser, "", "u1"}

TicketRow(status, customer, assignee, t) ==
    [id |-> 0, subject |-> <<Lit("subject")>>, status |-> status, priority |-> "medium",
     customer_id |-> customer, assigned_to |-> assignee, created_at |-> t]

ContactRow(status, creator, t) ==
    [id |-> 0, status |-> status, created_by |-> creator, created_at |-> t]

DealRow(stage, value, creator, t) ==
    [id |-> 0, stage |-> stage, value |-> value, created_by |-> creator,
     created_at |-> t]

\* An appointment that starts at t, entered two milliseconds before.
AppointmentRow(status, creator, t) ==
    [id |-> 0, status |-> status, created_by |-> creator, start_time |-> t,
     created_at |-> AddMs(t, 0 - 2)]

\* Primary keys: the rows of a table are numbered.
WithIds(rows) == [i \in 1..Len(rows) |-> [rows[i] EXCEPT !.id = i]]

SeqsUpTo(S, n) == UNION {[1..k -> S] : k \in 0..n}

Tables(S, n) == {WithIds(rows) : rows \in SeqsUpTo(S, n)}

EmptyDb == [q \in Q |-> <<>>]

Only(q, table) == [EmptyDb EXCEPT ![q] = table]

TicketStatus == {"open", "in-progress", "resolved", "closed"}

ContactStatus == {"lead", "prospect", "customer", "churned"}

AppointmentStatus == {"scheduled", "confirmed", "completed", "cancelled"}

MaxFilterRows == 2

MaxCountRows == 4

MaxValueRows == 2

MaxDeals == 40

MaxLost == 1

MaxAppointments == 40

MaxCancelled == 1

\* Tables whose rows differ in owner and time: the filters decide.
FilterDbs ==
    {Only("tickets", t) : t \in Tables({TicketRow("open", c, a, at) :
          c \in Users, a \in Users \cup {NullUser}, at \in RowTimes}, MaxFilterRows)}
    \cup {Only("contacts", t) : t \in Tables({ContactRow("lead", c, at) :
          c \in Users, at \in RowTimes}, MaxFilterRows)}
    \cup {Only("deals", t) : t \in Tables({DealRow("lead", Num(100), c, at) :
          c \in Users, at \in RowTimes}, MaxFilterRows)}
    \cup {Only("appointments", t) : t \in Tables({AppointmentRow("scheduled", c, at) :
          c \in Users, at \in RowTimes}, MaxFilterRows)}

\* Tables whose rows differ in status, stage and value: the reductions decide.
CountDbs ==
    {Only("tickets", t) : t \in Tables({TicketRow(st, "u1", NullUser, ParseISO(DateA)) :
          st \in TicketStatus}, MaxCountRows)}
    \cup {Only("contacts", t) : t \in Tables({ContactRow(st, "u1", ParseISO(DateA)) :
          st \in ContactStatus}, MaxCountRows)}
    \cup {Only("appointments", t) : t \in Tables({AppointmentRow(st, "u1", ParseISO(DateA)) :
          st \in AppointmentStatus}, MaxCountRows)}
    \cup {Only("deals", t) : t \in Tables({DealRow(sg, v, "u1", ParseISO(DateA)) :
          sg \in {"closed-won", "closed-lost", "proposal"},
          v \in {NullValue, Num(10), Num(20), Num(25000)}}, MaxValueRows)}

\* Deal tables of n rows, w of them won and l lost.
DealsOf(n, w, l) ==
    WithIds([i \in 1..n |->
        DealRow(IF i <= w THEN "closed-won"
                ELSE IF i <= w + l THEN "closed-lost" ELSE "negotiation",
                Num(100), "u1", ParseISO(DateA))])

RateDbs ==
    {Only("deals", DealsOf(x[1], x[2], x[3])) :
        x \in {y \in (1..MaxDeals) \X (0..MaxDeals) \X (0..MaxLost) :
                  y[2] + y[3] <= y[1]}}

\* Appointment tables of n rows, c of them completed and x cancelled.
AppointmentsOf(n, c, x) ==
    WithIds([i \in 1..n |->
        AppointmentRow(IF i <= c THEN "completed"
                       ELSE IF i <= c + x THEN "cancelled" ELSE "confirmed",
                       "u1", ParseISO(DateA))])

HeldDbs ==
    {Only("appointments", AppointmentsOf(x[1], x[2], x[3])) :
        x \in {y \in (1..MaxAppointments) \X (0..MaxAppointments) \X (0..MaxCancelled) :
                  y[2] + y[3] <= y[1]}}

\* The fixture of the specification's scenarios: three tickets (two resolved,
\* one open), no deals.
ScenarioDb ==
    [tickets |-> WithIds(<<TicketRow("resolved", "u1", "u2", ParseISO(DateA)),
                           TicketRow("resolved", "u2", "u1", ParseISO(DateB)),
                           TicketRow("open", "u2", NullUser, ParseISO(DateB))>>),
     contacts |-> WithIds(<<ContactRow("lead", "u1", ParseISO(DateB)),
                            ContactRow("customer", "u2", ParseISO(DateB))>>),
     deals |-> <<>>,
     appointments |-> WithIds(<<AppointmentRow("completed", "u1", ParseISO(DateB)),
                                AppointmentRow("cancelled", "u2", ParseISO(DateA))>>)]

\* Subjects are free text (subject text NOT NULL): one with a comma, one
\* with a line feed.
CommaSubject == <<Lit("printer"), Comma, Lit(" again")>>

TwoLineSubject == <<Lit("first line"), NewLine, Lit("second line")>>

WithSubject(row, subject) == [row EXCEPT !.subject = subject]

\* The same with deals, with rows just outside DateA..DateB and with
\* subjects of more than one word.
BusyDb ==
    [ScenarioDb EXCEPT
        !.tickets = WithIds(ScenarioDb.tickets \o
            <<TicketRow("closed", "u1", NullUser, AddMs(ParseISO(DateB), 1)),
              WithSubject(TicketRow("open", "u1", "u2", ParseISO(DateA)), CommaSubject),
              WithSubject(TicketRow("in-progress", "u2", "u1", ParseISO(DateB)),
                          TwoLineSubject)>>),
        !.contacts = WithIds(ScenarioDb.contacts \o
            <<ContactRow("prospect", "u1", AddMs(ParseISO(DateA), 0 - 1))>>),
        !.deals = WithIds(<<DealRow("closed-won", Num(250), "u1", ParseISO(DateB)),
                            DealRow("closed-lost", NullValue, "u1", ParseISO(DateB)),
                            DealRow("proposal", Num(100), "u2", ParseISO(DateA))>>)]

Fixtures == {ScenarioDb, BusyDb}

Formats == {NoFormat, "json", "pdf", "csv"}

Requests ==
    {Request("custom", w[1], w[2], u, f) :
        w \in CallerWindows, u \in CallerUsers, f \in Formats}
    \cup {Request(type, w[1], w[2], u, f) :
        type \in {"weekly", "monthly"},
        w \in {<<Undefined, Undefined>>, <<DateA, DateB>>},
        u \in {NoUser, "u1"}, f \in Formats}
    \cup {Malformed}

\* Clocks of the handler runs: one a few days after DateB, one on a
\* 31st of March.
Clocks ==
    {ParseISO(Iso(2025, 2, 3, 12, 34, 56, 789)), ParseISO(Iso(2025, 3, 31, 8, 0, 0, 0))}

\* `report` before line 54.
NoReport == [kind |-> "none"]

\* The state in which the handler is entered.
Entered(r, t, z, d) ==
    /\ pc = "start"
    /\ req = r
    /\ now = t
    /\ tz = z
    /\ db = d
    /\ window = [startDate |-> Undefined, endDate |-> Undefined]
    /\ issued = [q \in Q |-> 0]
    /\ qargs = [q \in Q |-> [kind |-> "none"]]
    /\ result = [q \in Q |-> [kind |-> "none"]]
    /\ promise = [q \in Q |-> [state |-> "none"]]
    /\ all = [state |-> "none"]
    /\ report = NoReport
    /\ responses = <<>>
    /\ mail = NoMail

Init == \E r \in Requests, t \in Clocks, d \in Fixtures : Entered(r, t, 0, d)

Spec == Init /\ [][Next]_vars

(***************************************************************************)
(* The date range alone: every day of sixteen months, in three time zones. *)
(***************************************************************************)
FirstDay == DaysFromCivil(2023, 12, 1)

NumDays == 487

DayTimes == {0, ((12 * 60 + 34) * 60 + 56) * 1000 + 789, MsPerDay - 1}

TzOffsets == {0 - 300, 0, 330}

WindowRequests ==
    {Request(type, w[1], w[2], NoUser, NoFormat) :
        type \in {"weekly", "monthly", "custom"},
        w \in {<<Undefined, Undefined>>, <<DateA, DateB>>}}

InitWindow ==
    \E r \in WindowRequests, d \in FirstDay..(FirstDay + NumDays - 1),
       ms \in DayTimes, z \in TzOffsets :
        Entered(r, Instant(d, ms), z, EmptyDb)

SpecWindow == InitWindow /\ [][Receive]_vars

(***************************************************************************)
(* One aggregator alone: the handler awaits the query of one entity, whose *)
(* table is drawn from the families above; the other three tables are     *)
(* empty and their queries have returned.                                  *)
(***************************************************************************)
NoRows == [kind |-> "rows", rows |-> <<>>]

Awaiting(r, t, d, focus) ==
    LET win == ResolveWindow(r.type, r.startDate, r.endDate, t, 0)
    IN  /\ pc = "awaiting"
        /\ req = r
        /\ now = t
        /\ tz = 0
        /\ db = d
        /\ window = win
        /\ issued = [q \in Q |-> 1]
        /\ qargs = [q \in Q |-> ArgsOf(r, win)]
        /\ result = [q \in Q |-> IF q = focus THEN [kind |-> "none"] ELSE NoRows]
        /\ promise = [q \in Q |-> IF q = focus THEN [state |-> "pending"]
                                  ELSE Settle(q, NoRows)]
        /\ all = [state |-> "pending"]
        /\ report = NoReport
        /\ responses = <<>>
        /\ mail = NoMail

FilterRequests ==
    {Request("custom", w[1], w[2], u, NoFormat) : w \in CallerWindows, u \in CallerUsers}

PlainRequest == Request("custom", Undefined, Undefined, NoUser, NoFormat)

AggClock == ParseISO(Iso(2025, 2, 3, 12, 34, 56, 789))

InitAgg ==
    \E focus \in Q :
        \/ \E r \in FilterRequests, d \in FilterDbs :
              d = Only(focus, d[focus]) /\ d # EmptyDb /\ Awaiting(r, AggClock, d, focus)
        \/ \E d \in CountDbs \cup RateDbs \cup HeldDbs :
              d = Only(focus, d[focus]) /\ d # EmptyDb
              /\ Awaiting(PlainRequest, AggClock, d, focus)
        \/ \E r \in FilterRequests : Awaiting(r, AggClock, EmptyDb, focus)

NextAgg == \E q \in Q : Complete(q)

SpecAgg == InitAgg /\ [][NextAgg]_vars

(***************************************************************************)
(* The join alone: one request in each format (and one whose body cannot   *)
(* be read) over the busy fixture, the four queries completing in any      *)
(* order with any outcome.  The handler's own steps are continuations on   *)
(* the event loop: once the body is read, or Promise.all has settled, the  *)
(* step that follows is run.  When a query returns is up to the network    *)
(* and the database.                                                       *)
(***************************************************************************)
JoinRequests == {Request("custom", DateA, DateB, "u1", f) : f \in Formats} \cup {Malformed}

InitJoin == \E r \in JoinRequests : Entered(r, AggClock, 0, BusyDb)

SpecJoin ==
    /\ InitJoin
    /\ [][Next]_vars
    /\ WF_vars(Receive)
    /\ WF_vars(RejectBody)
    /\ WF_vars(Respond)
    /\ WF_vars(Catch)

(***************************************************************************)
(* The template renderer alone: one call of renderTemplate on a body and a *)
(* templateData object, the report function having no request.             *)
(***************************************************************************)
\* Bodies that are no template of the function: a placeholder used twice, a
\* number in a sentence, the name of an inherited property, no placeholder.
OtherBodies ==
    { <<Ph("title"), Lit(" / "), Ph("title")>>,
      <<Lit("Takes "), Ph("duration"), Lit(" minutes")>>,
      <<Lit("Made by "), Ph("constructor")>>,
      <<Lit("Nothing to fill in")>> }

Bodies ==
    {ticket_created_subject, appointment_reminder_subject, appointment_reminder_html,
     appointment_reminder_text} \cup OtherBodies

DataKeys == {"title", "duration", "meetingLink", "description"}

DataValues ==
    {Str(<<Lit("Standup")>>), Str(<<>>), NumV(0), NumV(30), BoolV(FALSE), NullV}

\* templateData: any of the keys, each with any of the values.
Datas == UNION {[K -> DataValues] : K \in SUBSET DataKeys}

InitRender ==
    /\ pc = "idle"
    /\ req = Malformed
    /\ now = AggClock
    /\ tz = 0
    /\ db = EmptyDb
    /\ window = [startDate |-> Undefined, endDate |-> Undefined]
    /\ issued = [q \in Q |-> 0]
    /\ qargs = [q \in Q |-> [kind |-> "none"]]
    /\ result = [q \in Q |-> [kind |-> "none"]]
    /\ promise = [q \in Q |-> [state |-> "none"]]
    /\ all = [state |-> "none"]
    /\ report = NoReport
    /\ responses = <<>>
    /\ \E b \in Bodies, d \in Datas : mail = [pc |-> "start", template |-> b, data |-> d]

SpecRender == InitRender /\ [][Render]_vars

(***************************************************************************)
(* Properties.                                                             *)
(***************************************************************************)
\* The lines of a text: what lies between its line feeds.
Lines(text) ==
    LET P == {i \in DOMAIN text : text[i] = NewLine}
        n == Cardinality(P) + 1
        Nth(k) == CHOOSE p \in P : Cardinality({r \in P : r < p}) = k - 1
        From(k) == IF k = 1 THEN 1 ELSE Nth(k - 1) + 1
        To(k) == IF k = n THEN Len(text) ELSE Nth(k) - 1
    IN  [k \in 1..n |-> SubSeq(text, From(k), To(k))]

\* A property of a parsed JSON object, undefined when the object lacks it.
Field(obj, name) == IF name \in DOMAIN obj THEN obj[name] ELSE Undefined

IsFailure(resp) == resp.status = 500 /\ DOMAIN resp.body = {"error"}

IsSuccess(resp) == resp.status = 200

Failed(q) == result[q].kind = "error"

Returned(q) == result[q].kind \in {"rows", "null"}

\* C1: if any one of the four entity queries returns an error, no response
\* carrying a report is ever returned, whatever the other three queries do,
\* and the response of the finished request is the single failure response
\* {error: message} with status 500, the message being that of a failed query.
C1_QueryErrorFailsRequest ==
    \A q \in Q :
        Failed(q) =>
            /\ \A i \in DOMAIN responses :
                  /\ IsFailure(responses[i])
                  /\ \E r \in Q : /\ Failed(r)
                                  /\ responses[i].body.error = result[r].error.message
            /\ pc = "done" => Len(responses) = 1

\* The appointments query fails after tickets, contacts and deals were
\* fetched, and the request has ended.
C1_Witness ==
    /\ pc = "done"
    /\ Failed("appointments")
    /\ \A q \in Q \ {"appointments"} : result[q].kind = "rows"
    /\ Len(responses) = 1
    /\ IsFailure(responses[1])

\* C2: in every interleaving of the four queries the join is passed, the
\* report assembled and a success response emitted only when all four
\* aggregators have completed successfully; none is pending at that time.
C2_SuccessOnlyAfterAllFour ==
    (all.state = "fulfilled" \/ \E i \in DOMAIN responses : IsSuccess(responses[i]))
        => \A q \in Q : promise[q].state = "fulfilled" /\ Returned(q)

\* A success response after all four queries returned.
C2_Witness ==
    /\ pc = "done"
    /\ Len(responses) = 1
    /\ IsSuccess(responses[1])
    /\ \A q \in Q : promise[q].state = "fulfilled"

\* C3: nothing is retried: each of the four entity queries is sent at most
\* once per request, also after a query has failed and until (and after) the
\* failure response is returned.
C3_NoRetry ==
    \A q \in Q : /\ issued[q] <= 1
                 /\ Failed(q) => issued[q] = 1

\* A request ended by the failure response, one query having failed and
\* another having returned its rows.
C3_Witness ==
    /\ pc = "done"
    /\ \E q \in Q : Failed(q)
    /\ \E q \in Q : Returned(q)
    /\ IsFailure(responses[1])

\* The rows of entity q returned to the aggregator (its details).
Details(q) == promise[q].value.details

Included(q, row) == \E j \in DOMAIN Details(q) : Details(q)[j].id = row.id

\* The time the date window is applied to.
RowTime(q, row) == IF q = "appointments" THEN row.start_time ELSE row.created_at

\* The row lies in the request's window, an unset (or empty) bound placing no
\* restriction.
InWindow(q, row) ==
    /\ window.startDate.kind = "iso" => TimeLE(ParseISO(window.startDate), RowTime(q, row))
    /\ window.endDate.kind = "iso" => TimeLE(RowTime(q, row), ParseISO(window.endDate))

\* An actor id is supplied: userId is present and not the empty string.
ActorSupplied == req.userId \notin {NoUser, ""}

Fetched(q) == promise[q].state = "fulfilled" /\ result[q].kind = "rows"

\* C4: with an actor id supplied, a ticket of the table is among the fetched
\* rows exactly when it lies in the date window and the actor is its customer
\* or its assignee.
C4_TicketActorIsCustomerOrAssignee ==
    (Fetched("tickets") /\ ActorSupplied) =>
        \A i \in DOMAIN db.tickets :
            Included("tickets", db.tickets[i])
                <=> /\ InWindow("tickets", db.tickets[i])
                    /\ \/ db.tickets[i].customer_id = req.userId
                       \/ db.tickets[i].assigned_to = req.userId

\* One fetch keeps a ticket the actor is assigned to without being its
\* customer and drops a ticket the actor has no part in.
C4_Witness ==
    /\ Fetched("tickets")
    /\ ActorSupplied
    /\ \E i \in DOMAIN db.tickets :
          /\ db.tickets[i].assigned_to = req.userId
          /\ db.tickets[i].customer_id # req.userId
          /\ Included("tickets", db.tickets[i])
    /\ \E i \in DOMAIN db.tickets :
          /\ db.tickets[i].assigned_to # req.userId
          /\ db.tickets[i].customer_id # req.userId
          /\ InWindow("tickets", db.tickets[i])
          /\ ~Included("tickets", db.tickets[i])

\* C5: with an actor id supplied, every contact, deal and appointment fetched
\* was created by the actor; with none supplied, no entity is restricted by
\* ownership: every row of the window is fetched, for all four entities.
C5_CreatorOnlyWhenActorSupplied ==
    /\ ActorSupplied =>
          \A q \in {"contacts", "deals", "appointments"} :
              Fetched(q) =>
                  \A j \in DOMAIN Details(q) : Details(q)[j].created_by = req.userId
    /\ ~ActorSupplied =>
          \A q \in Q :
              Fetched(q) =>
                  \A i \in DOMAIN db[q] : Included(q, db[q][i]) <=> InWindow(q, db[q][i])

\* A contact fetch for an actor that keeps the actor's contact and drops
\* another creator's contact of the same window.
C5_Witness ==
    /\ Fetched("contacts")
    /\ ActorSupplied
    /\ \E i \in DOMAIN db.contacts :
          /\ db.contacts[i].created_by = req.userId
          /\ Included("contacts", db.contacts[i])
    /\ \E i \in DOMAIN db.contacts :
          /\ db.contacts[i].created_by # req.userId
          /\ InWindow("contacts", db.contacts[i])
          /\ ~Included("contacts", db.contacts[i])

\* Whole months since year 0 of a civil date.
MonthIndex(c) == c.year * 12 + c.month

\* C6: for a weekly request the resolved end is the current time and the
\* resolved start lies exactly 7 days (604800000 ms) before it.
C6_WeeklyWindowIsSevenDays ==
    (pc = "awaiting" /\ req.type = "weekly") =>
        LET s == ParseISO(window.startDate)
            e == ParseISO(window.endDate)
        IN  /\ e = now
            /\ s.ms = e.ms
            /\ e.day - s.day = 7

\* A weekly window that starts in the month before its end.
C6_Witness ==
    /\ pc = "awaiting"
    /\ req.type = "weekly"
    /\ MonthIndex(window.startDate) = MonthIndex(window.endDate) - 1

\* C7: for a monthly request the resolved start falls in the calendar month
\* just before that of the resolved end (read in the runtime's time zone, as
\* the handler reads them): a day of the month the previous month lacks does
\* not carry the start over into a later month.
C7_MonthlyStartInPreviousMonth ==
    (pc = "awaiting" /\ req.type = "monthly") =>
        MonthIndex(CivilFromDays(LocalTime(ParseISO(window.startDate), tz).day))
            = MonthIndex(CivilFromDays(LocalTime(ParseISO(window.endDate), tz).day)) - 1

\* The row passes the actor restriction of its entity, if an actor is given.
OwnerOk(q, row) ==
    ActorSupplied =>
        IF q = "tickets"
        THEN row.customer_id = req.userId \/ row.assigned_to = req.userId
        ELSE row.created_by = req.userId

\* The row lies within the caller's own bounds, an absent one not bounding.
InCallerWindow(q, row) ==
    /\ req.startDate.kind = "iso" => TimeLE(ParseISO(req.startDate), RowTime(q, row))
    /\ req.endDate.kind = "iso" => TimeLE(RowTime(q, row), ParseISO(req.endDate))

\* C8: for a custom request the window handed to all four queries and echoed
\* in meta is the caller's startDate / endDate as given, an absent bound
\* leaving that side unbounded; for a weekly or monthly request it is the one
\* the resolver computes from the clock, the same as if the caller had given
\* no dates, in the queries and in meta.
C8_WindowSource ==
    LET expected == IF req.type = "custom"
                    THEN [startDate |-> req.startDate, endDate |-> req.endDate]
                    ELSE ResolveWindow(req.type, Undefined, Undefined, now, tz)
    IN  (req # Malformed /\ pc # "start") =>
            /\ \A q \in Q : /\ qargs[q].startDate = expected.startDate
                            /\ qargs[q].endDate = expected.endDate
            /\ req.type = "custom" =>
                  \A q \in Q :
                      Fetched(q) =>
                          \A i \in DOMAIN db[q] :
                              Included(q, db[q][i])
                                  <=> InCallerWindow(q, db[q][i]) /\ OwnerOk(q, db[q][i])
            /\ \A i \in DOMAIN responses :
                  IsSuccess(responses[i]) =>
                      IF FormatOf(req) = "csv"
                      THEN /\ Lines(responses[i].body)[4]
                                  = <<Lit("Start Date"), Comma>>
                                        \o TextOfDate(expected.startDate)
                           /\ Lines(responses[i].body)[5]
                                  = <<Lit("End Date"), Comma>>
                                        \o TextOfDate(expected.endDate)
                      ELSE /\ Field(responses[i].body.meta, "startDate")
                                  = expected.startDate
                           /\ Field(responses[i].body.meta, "endDate")
                                  = expected.endDate

\* A weekly report answered with the computed window although the caller
\* gave both dates.
C8_Witness ==
    /\ pc = "done"
    /\ req # Malformed
    /\ req.type = "weekly"
    /\ req.startDate = DateA
    /\ req.endDate = DateB
    /\ FormatOf(req) = "json"
    /\ IsSuccess(responses[1])
    /\ responses[1].body.meta.endDate = toISOString(now)

\* How many of the fetched rows of q satisfy Test.
CountRows(q, Test(_)) == Cardinality({j \in DOMAIN Details(q) : Test(Details(q)[j])})

IsWon(row) == row.stage = "closed-won"

\* C9: for every set of deal rows conversionRate is 0 when total is 0, and
\* else the integer nearest to won / total * 100, a half going up; it always
\* lies in 0..100.
C9_ConversionRateIsRoundedPercentage ==
    promise["deals"].state = "fulfilled" =>
        LET v     == promise["deals"].value
            total == Len(v.details)
            won   == CountRows("deals", IsWon)
        IN  /\ v.conversionRate \in 0..100
            /\ total = 0 => v.conversionRate = 0
            /\ total > 0 =>
                  /\ 2 * total * v.conversionRate - total <= 200 * won
                  /\ 200 * won < 2 * total * v.conversionRate + total

RECURSIVE SumValues(_, _)
\* The sum of f over the keys in S.
SumValues(f, S) ==
    IF S = {} THEN 0
    ELSE LET k == CHOOSE x \in S : TRUE IN f[k] + SumValues(f, S \ {k})

\* C10: for every result of the ticket query (rows, no rows, or no data at
\* all), the counts of byStatus add up to total, and total is the number of
\* rows in details.
C10_ByStatusSumsToTotal ==
    promise["tickets"].state = "fulfilled" =>
        LET v == promise["tickets"].value
        IN  /\ SumValues(v.byStatus, DOMAIN v.byStatus) = v.total
            /\ v.total = Len(v.details)

\* Tickets of two statuses, one status held by several tickets.
C10_Witness ==
    /\ promise["tickets"].state = "fulfilled"
    /\ promise["tickets"].value.total >= 3
    /\ Cardinality(DOMAIN promise["tickets"].value.byStatus) >= 2
    /\ \E k \in DOMAIN promise["tickets"].value.byStatus :
          promise["tickets"].value.byStatus[k] >= 2

\* The header line of the ticket block.
TicketHeader ==
    Join(<< <<Lit("ID")>>, <<Lit("Subject")>>, <<Lit("Status")>>, <<Lit("Priority")>>,
            <<Lit("Created At")>>, <<Lit("Customer")>>, <<Lit("Assigned To")>> >>, Comma)

\* The lines of a csv text after the (first) ticket header line.
DetailLines(text) ==
    LET ls == Lines(text)
        h  == CHOOSE i \in DOMAIN ls :
                  ls[i] = TicketHeader /\ \A j \in 1..(i - 1) : ls[j] # TicketHeader
    IN  SubSeq(ls, h + 1, Len(ls))

\* The detail line that corresponds to a ticket of details.
DetailLineOf(t) ==
    Join(<<TextOfNumber(t.id), t.subject, <<Lit(t.status)>>, <<Lit(t.priority)>>,
           TextOfTime(t.created_at),
           IF t.customer.isNull THEN <<>> ELSE t.customer.name,
           IF t.assignedTo.isNull THEN <<>> ELSE t.assignedTo.name>>, Comma)

CsvAnswered(i) == IsSuccess(responses[i]) /\ FormatOf(req) = "csv"

\* C11: in csv output the lines after the ticket header line are as many as
\* the tickets of tickets.details, and the k-th of them is the line of the
\* k-th ticket, whatever the tickets' contents.
C11_OneDetailLinePerTicket ==
    \A i \in DOMAIN responses :
        CsvAnswered(i) =>
            LET d == DetailLines(responses[i].body)
                t == report.tickets.details
            IN  /\ Len(d) = Len(t)
                /\ \A k \in DOMAIN t : d[k] = DetailLineOf(t[k])

Assembled == report # NoReport

\* C12: in an assembled report the summary holds one headline metric of each
\* entity summary (totalTickets = tickets.total, resolvedTickets =
\* tickets.resolved, newContacts = contacts.new = the number of contact rows,
\* totalRevenue = deals.revenue, appointmentsHeld = appointments.completed),
\* the entity summaries are those the aggregators returned, and meta echoes
\* the request's type, the window the queries were given and the actor id;
\* a structured response carries the same summary.
C12_SummaryCopiesHeadlines ==
    Assembled =>
        /\ \A q \in Q : report[q] = promise[q].value
        /\ report.summary.totalTickets = report.tickets.total
        /\ report.summary.resolvedTickets = report.tickets.resolved
        /\ report.summary.newContacts = report.contacts.new
        /\ report.contacts.new = Len(report.contacts.details)
        /\ report.summary.totalRevenue = report.deals.revenue
        /\ report.summary.appointmentsHeld = report.appointments.completed
        /\ DOMAIN report.summary = {"totalTickets", "resolvedTickets", "newContacts",
                                    "totalRevenue", "appointmentsHeld"}
        /\ report.meta.type = req.type
        /\ report.meta.userId = req.userId
        /\ \A q \in Q : /\ report.meta.startDate = qargs[q].startDate
                        /\ report.meta.endDate = qargs[q].endDate
        /\ \A i \in DOMAIN responses :
              (IsSuccess(responses[i]) /\ FormatOf(req) # "csv") =>
                  /\ responses[i].body.summary = report.summary
                  /\ responses[i].body.meta.type = req.type
                  /\ Field(responses[i].body.meta, "userId")
                         = (IF req.userId = NoUser THEN Undefined ELSE req.userId)

\* A report whose five headline metrics are all positive, with fewer
\* appointments completed than fetched and fewer tickets resolved than fetched.
C12_Witness ==
    /\ pc = "done"
    /\ Assembled
    /\ report.summary.totalTickets > report.summary.resolvedTickets
    /\ report.summary.resolvedTickets > 0
    /\ report.summary.newContacts > 0
    /\ report.summary.totalRevenue # ZeroDouble
    /\ report.summary.appointmentsHeld > 0
    /\ report.summary.appointmentsHeld < report.appointments.total

ReportFields == {"meta", "summary", "tickets", "contacts", "deals", "appointments"}

MetaFields == {"type", "startDate", "endDate", "generatedAt", "userId"}

\* The parsed body carries the report as a "json" response does: the four
\* entity summaries and the summary as assembled, and of meta every property
\* that has a value.
CarriesReport(body) ==
    /\ ReportFields \subseteq DOMAIN body
    /\ \A f \in ReportFields \ {"meta"} : body[f] = report[f]
    /\ DOMAIN body.meta \subseteq MetaFields
    /\ body.meta.type = report.meta.type
    /\ body.meta.generatedAt = report.meta.generatedAt
    /\ Field(body.meta, "startDate") = report.meta.startDate
    /\ Field(body.meta, "endDate") = report.meta.endDate
    /\ Field(body.meta, "userId")
           = (IF report.meta.userId = NoUser THEN Undefined ELSE report.meta.userId)

\* C13: a request for format "pdf" whose four queries all succeed is answered
\* with a success, never a failure: the JSON document a "json" request gets
\* for the same data, every field unchanged, plus the one field note; a
\* request without a format is answered as a "json" request is.
C13_PdfIsAnnotatedJson ==
    (req # Malformed /\ pc = "done" /\ \A q \in Q : Returned(q)) =>
        /\ Len(responses) = 1
        /\ IsSuccess(responses[1])
        /\ req.format = "pdf" =>
              /\ responses[1].contentType = "application/json"
              /\ CarriesReport(responses[1].body)
              /\ DOMAIN responses[1].body = ReportFields \cup {"note"}
              /\ responses[1].body.note = PdfNote
        /\ req.format \in {"json", NoFormat} =>
              /\ responses[1].contentType = "application/json"
              /\ CarriesReport(responses[1].body)
              /\ DOMAIN responses[1].body = ReportFields

\* A "pdf" request answered with the annotated report, tickets included.
C13_Witness ==
    /\ pc = "done"
    /\ req # Malformed
    /\ req.format = "pdf"
    /\ IsSuccess(responses[1])
    /\ responses[1].body.note = PdfNote
    /\ Len(responses[1].body.tickets.details) >= 3
    /\ "startDate" \notin DOMAIN responses[1].body.meta

\* The string of a value of the mapping, whatever the value.
ValueText(v) ==
    IF v.t = "string" THEN v.text
    ELSE IF v.t = "number" THEN <<[num |-> v.n]>>
    ELSE IF v.t = "boolean" THEN <<Lit(IF v.b THEN "true" ELSE "false")>>
    ELSE <<Lit("null")>>

RECURSIVE Substituted(_, _)
\* The body with each placeholder whose name is a key of the mapping
\* replaced by the string of the key's value, and all else as it is.
Substituted(body, data) ==
    IF body = <<>> THEN <<>>
    ELSE (IF DOMAIN Head(body) = {"ph"} /\ Head(body).ph \in DOMAIN data
          THEN ValueText(data[Head(body).ph])
          ELSE <<Head(body)>>)
         \o Substituted(Tail(body), data)

\* C14: for every template body and every flat mapping, renderTemplate gives
\* the body with every occurrence of each placeholder whose name is a key of
\* the mapping replaced by the string of that key's value, whatever the value
\* (0, false and the empty string included), and every placeholder whose name
\* is no key of the mapping left verbatim.
C14_KnownPlaceholdersReplaced ==
    mail.pc = "done" => mail.out = Substituted(mail.template, mail.data)

\* The tokens of the block of body that is conditional on field, which
\* occur nowhere else in body.
Segment(body, field) ==
    LET i == CHOOSE k \in DOMAIN body : body[k] = IfOpen(field)
        j == CHOOSE k \in DOMAIN body :
                 /\ k > i
                 /\ body[k] = IfClose
                 /\ \A m \in (i + 1)..(k - 1) : body[m] # IfClose
    IN  {body[k] : k \in (i + 1)..(j - 1)} \ {body[k] : k \in DOMAIN body \ (i..j)}

IsMarker(token) == DOMAIN token \in {{"open"}, {"close"}}

Occurs(token, text) == \E k \in DOMAIN text : text[k] = token

\* C15: when a body of the appointment-reminder template is rendered, the
\* block that is conditional on meetingLink, and the one on description,
\* shows in the output only if the field is present in the template data,
\* and no marker of a conditional block shows in the output.
C15_ConditionalBlocks ==
    (mail.pc = "done"
        /\ mail.template \in {appointment_reminder_html, appointment_reminder_text}) =>
        /\ \A k \in DOMAIN mail.out : ~IsMarker(mail.out[k])
        /\ \A field \in {"meetingLink", "description"} :
              field \notin DOMAIN mail.data =>
                  \A token \in Segment(mail.template, field) : ~Occurs(token, mail.out)

\* The report is as line 54 assembled it from the four results.
AsAssembled(doc) ==
    /\ DOMAIN doc = ReportFields
    /\ \A q \in Q : doc[q] = promise[q].value
    /\ doc.summary = [totalTickets     |-> promise["tickets"].value.total,
                      resolvedTickets  |-> promise["tickets"].value.resolved,
                      newContacts      |-> promise["contacts"].value.new,
                      totalRevenue     |-> promise["deals"].value.revenue,
                      appointmentsHeld |-> promise["appointments"].value.completed]
    /\ \E e \in Elapsed :
          doc.meta = [type        |-> req.type,
                      startDate   |-> window.startDate,
                      endDate     |-> window.endDate,
                      generatedAt |-> toISOString(AddMs(now, e)),
                      userId      |-> req.userId]

\* C16: once the response is made, in whichever of the three output modes
\* (csv, the pdf placeholder, json), the report object is as it was
\* assembled: meta, summary, the four entity summaries and their details
\* lists are unchanged and no field is added.
C16_SerializerLeavesReport ==
    (pc = "done" /\ Len(responses) = 1 /\ IsSuccess(responses[1])) => AsAssembled(report)

\* A csv response made from a report with tickets in its details.
C16_Witness ==
    /\ pc = "done"
    /\ Len(responses) = 1
    /\ CsvAnswered(1)
    /\ Len(report.tickets.details) >= 3
    /\ Len(DetailLines(responses[1].body)) >= 3

IsLost(row) == row.stage = "closed-lost"

RECURSIVE SumCents(_, _)
\* The hundredths of the values of the rows of table among the fetched
\* ones, from row i on, a null value counting 0.
SumCents(table, i) ==
    IF i > Len(table) THEN 0
    ELSE (IF Included("deals", table[i]) /\ ~table[i].value.isNull
          THEN table[i].value.cents ELSE 0)
         + SumCents(table, i + 1)

\* C17: for every set of deal rows, revenue is the sum of the rows' values,
\* a missing or null value counting 0 (the number that sum is written as, 0
\* for no rows), and won and lost are the numbers of rows whose stage is
\* closed-won and closed-lost.
C17_RevenueIsSumOfValues ==
    promise["deals"].state = "fulfilled" =>
        LET v == promise["deals"].value
        IN  /\ v.revenue = DoubleOfCents(SumCents(db.deals, 1))
            /\ Len(v.details) = 0 => v.revenue = ZeroDouble
            /\ v.won = CountRows("deals", IsWon)
            /\ v.lost = CountRows("deals", IsLost)

\* The timestamp of the row is not before the start, if one is set.
FromStart(t) == window.startDate.kind = "iso" => TimeLE(ParseISO(window.startDate), t)

\* The timestamp of the row is not after the end, if one is set.
UpToEnd(t) == window.endDate.kind = "iso" => TimeLE(t, ParseISO(window.endDate))

\* C18: each aggregator applies the window inclusively to its own timestamp
\* (created_at for tickets, contacts and deals, start_time for
\* appointments): a row is fetched only when its timestamp is >= startDate,
\* if that is set, and <= endDate, if that is set; an unset bound restricts
\* nothing, so that every row of the actor within the set bounds is fetched;
\* all four queries are given the same resolved window.
C18_WindowInclusiveOnOwnTimestamp ==
    /\ \A q \in Q :
          issued[q] >= 1 => /\ qargs[q].startDate = window.startDate
                            /\ qargs[q].endDate = window.endDate
    /\ \A q \in Q :
          Fetched(q) =>
              \A i \in DOMAIN db[q] :
                  LET row == db[q][i]
                      t   == IF q = "appointments" THEN row.start_time ELSE row.created_at
                  IN  /\ Included(q, row) => FromStart(t) /\ UpToEnd(t)
                      /\ (FromStart(t) /\ UpToEnd(t) /\ OwnerOk(q, row)) => Included(q, row)

\* Appointments fetched for DateA..DateB: one starting exactly at DateA
\* (entered before DateA) is kept, one starting a millisecond after DateB
\* (entered before DateB) is dropped.
C18_Witness ==
    /\ Fetched("appointments")
    /\ window = [startDate |-> DateA, endDate |-> DateB]
    /\ \E i \in DOMAIN db.appointments :
          /\ db.appointments[i].start_time = ParseISO(DateA)
          /\ ~TimeLE(ParseISO(DateA), db.appointments[i].created_at)
          /\ Included("appointments", db.appointments[i])
    /\ \E i \in DOMAIN db.appointments :
          /\ db.appointments[i].start_time = AddMs(ParseISO(DateB), 1)
          /\ TimeLE(db.appointments[i].created_at, ParseISO(DateB))
          /\ ~Included("appointments", db.appointments[i])

IsCompleted(row) == row.status = "completed"

IsCancelled(row) == row.status = "cancelled"

\* C19: for every set of appointment rows completed and cancelled are the
\* numbers of rows with these statuses, completionRate is 0 when total is 0
\* and else the integer nearest to completed / total * 100, a half going up,
\* and it lies in 0..100.
C19_CompletionRateIsRoundedPercentage ==
    promise["appointments"].state = "fulfilled" =>
        LET v     == promise["appointments"].value
            total == Len(v.details)
            done  == CountRows("appointments", IsCompleted)
        IN  /\ v.total = total
            /\ v.completed = done
            /\ v.cancelled = CountRows("appointments", IsCancelled)
            /\ v.completionRate \in 0..100
            /\ total = 0 => v.completionRate = 0
            /\ total > 0 =>
                  /\ 2 * total * v.completionRate - total <= 200 * done
                  /\ 200 * done < 2 * total * v.completionRate + total

\* C20: for tickets and for contacts the keys of byStatus are exactly the
\* statuses that occur in the fetched rows and each value is the number of
\* rows of that status, hence >= 1: a status that does not occur has no
\* entry, and no rows give the empty mapping.
C20_ByStatusKeysAreObserved ==
    \A q \in {"tickets", "contacts"} :
        promise[q].state = "fulfilled" =>
            LET v == promise[q].value
            IN  /\ DOMAIN v.byStatus = {v.details[j].status : j \in DOMAIN v.details}
                /\ \A k \in DOMAIN v.byStatus :
                      /\ v.byStatus[k] >= 1
                      /\ v.byStatus[k]
                             = Cardinality({j \in DOMAIN v.details : v.details[j].status = k})
                /\ v.details = <<>> => v.byStatus = EmptyObject

\* Three contacts of two statuses: two entries, none for the other statuses.
C20_Witness ==
    /\ promise["contacts"].state = "fulfilled"
    /\ promise["contacts"].value.new = 3
    /\ DOMAIN promise["contacts"].value.byStatus = {"lead", "customer"}
    /\ promise["contacts"].value.byStatus["lead"] = 2

\* The request has got its one response.
Answered == Len(responses) = 1

Settled(q) == promise[q].state \in {"fulfilled", "rejected"}

\* C21: in every interleaving of the four query completions, two or more
\* failing included, a report request gets exactly one response: never more
\* than one, one once the join of the four has settled, and one when the
\* request has ended.  A response once given is never replaced, added to or
\* changed: queries that complete or fail after the failure response settle
\* their own promise and leave the responses and the join as they are.
C21_ExactlyOneResponse ==
    /\ [](Len(responses) <= 1)
    /\ [](pc = "done" => Answered)
    /\ [][Answered => responses' = responses]_vars
    /\ [][all.state \in {"fulfilled", "rejected"} => all' = all]_vars
    /\ (all.state \in {"fulfilled", "rejected"}) ~> Answered
    /\ [](((\A q \in Q : Settled(q)) /\ pc = "done" /\ all.state = "rejected")
            => /\ IsFailure(responses[1])
               /\ responses[1] = FailureResponse(all.reason))

\* Two queries have failed with different messages, all four have completed
\* and the request has ended with the one failure response.
C21_Witness ==
    /\ pc = "done"
    /\ \A q \in Q : Settled(q)
    /\ \E q, r \in Q : /\ q # r
                       /\ Failed(q)
                       /\ Failed(r)
                       /\ responses[1].body.error = result[q].error.message
                       /\ responses[1].body.error # result[r].error.message
    /\ Answered
    /\ IsFailure(responses[1])

\* The four sections of a report satisfy the bounds.
Bounded(tickets, contacts, deals, appointments) ==
    /\ tickets.resolved <= tickets.total
    /\ deals.won + deals.lost <= deals.total
    /\ appointments.completed + appointments.cancelled <= appointments.total
    /\ tickets.total = Len(tickets.details)
    /\ contacts.new = Len(contacts.details)
    /\ deals.total = Len(deals.details)
    /\ appointments.total = Len(appointments.details)
    /\ \A n \in {tickets.resolved, deals.won, deals.lost, appointments.completed,
                  appointments.cancelled} : n >= 0

\* C22: in every assembled report the derived counts are bounded by the row
\* counts (tickets.resolved <= tickets.total, deals.won + deals.lost <=
\* deals.total, appointments.completed + appointments.cancelled <=
\* appointments.total) and tickets.total, contacts.new, deals.total and
\* appointments.total are the lengths of the details lists; the same holds of
\* the four summaries once the aggregators have returned them, and of the
\* json response.
C22_CountsBoundedByRows ==
    /\ (\A q \in Q : promise[q].state = "fulfilled") =>
           Bounded(promise["tickets"].value, promise["contacts"].value,
                   promise["deals"].value, promise["appointments"].value)
    /\ Assembled =>
           /\ Bounded(report.tickets, report.contacts, report.deals, report.appointments)
           /\ \A i \in DOMAIN responses :
                  (IsSuccess(responses[i]) /\ FormatOf(req) # "csv") =>
                      Bounded(responses[i].body.tickets, responses[i].body.contacts,
                              responses[i].body.deals, responses[i].body.appointments)

\* A report with fewer tickets resolved than fetched, a deal neither won nor
\* lost beside one won and one lost, and every appointment either completed
\* or cancelled.
C22_Witness ==
    /\ Assembled
    /\ report.tickets.resolved = 2
    /\ report.tickets.total = 6
    /\ report.deals.won = 1
    /\ report.deals.lost = 1
    /\ report.deals.total = 3
    /\ report.appointments.completed + report.appointments.cancelled
           = report.appointments.total
    /\ report.appointments.total = 2
    /\ Len(report.contacts.details) = 3

====
